---- MODULE Spec2Model ----
(***************************************************************************)
(* NeonFlow: the canvas rendering engine (VisualizerCanvas) together with  *)
(* the part of the application shell (App, ControlPanel, AudioService)     *)
(* that mounts it, feeds it its props and tears it down.                   *)
(*                                                                         *)
(* Numbers.  Positions and velocities are fixed-point numbers in units of  *)
(* 1/Unit pixel, hues are in units of 1/Unit degree, audio levels and the  *)
(* values of Math.random() are in units of 1/Unit.  A surface size is in   *)
(* whole pixels, as canvas.width is.                                       *)
(*                                                                         *)
(* Particle fields.  A field is the array held by one of the refs.  The    *)
(* model keeps its length (n), the identity of the array object (gen: the  *)
(* number of arrays the ref has been assigned so far) and the first        *)
(* NumTracked particles (p); the code treats all particles of a field      *)
(* alike and independently of each other.                                  *)
(***************************************************************************)
EXTENDS Integers, Sequences, FiniteSets, TLC

\* ---------------------------------------------------------------- bounds
Unit == 1000
NumTracked == 1
MaxSteps == 3
MaxLen == 128

\* ------------------------------------------------------ program constants
NULL == "null"
NoAnalyser == 0
AnalyserNode == 1
NoCanvas == [width |-> -1, height |-> -1]
CIRCULAR == "CIRCULAR"
BARS == "BARS"
WAVE == "WAVE"
NEURAL == "NEURAL"
WATERCOLOR == "WATERCOLOR"
NEBULA == "NEBULA"
WATER_CIRCLE == "WATER_CIRCLE"
VisualizerMode == {CIRCULAR, BARS, WAVE, NEURAL, WATERCOLOR, NEBULA, WATER_CIRCLE}

fftSize == 2048
NodeCount == 50
BlobCount == 7
StarCount == 150
ShardCount == 150
ShardMargin == 150
DefaultCanvas == [width |-> 300, height |-> 150]

\* ------------------------------------------------------------- inputs
\* window.innerWidth x window.innerHeight; the canvas fills the window
\* (w-screen h-screen / inset-0 w-full h-full), so these are also the
\* canvas's clientWidth and clientHeight.
WindowSizes == {[w |-> 800, h |-> 600], [w |-> 400, h |-> 300]}
\* a window without area (an iframe that is not displayed)
ZeroSize == [w |-> 0, h |-> 0]
\* values of the hue slider (min 0, max 360)
SliderValues == {0, 200, 360}
\* values of Math.sin(time * 0.5) * 54, in 1/Unit degree
Wobbles == {-54 * Unit, 0, 54 * Unit}
\* spectra the analyser delivers
Frames == {"silence", "full"}
\* and one whose magnitudes go 0, 85, 170, 255 from bin to bin
Spectra == Frames \cup {"stairs"}
\* a window of a few pixels (a collapsed side panel)
TinySize == [w |-> 60, h |-> 40]
\* magnitude bytes (Uint8Array values) and bass bins a probe spectrum is
\* varied with
Bytes == {0, 1, 128, 255}
BassBins == {0, 4, 5, 19}

\* ------------------------------------------------------------ arithmetic
\* JavaScript's % : the result has the sign of the dividend
JsRem(a, n) == IF a >= 0 THEN a % n ELSE -((-a) % n)

Min(a, b) == IF a < b THEN a ELSE b

\* const x = v; followed by the code Op that uses x
Let(v, Op(_)) == CHOOSE r \in {Op(x) : x \in {v}} : TRUE

\* one draw of the random numbers a particle is made of
\* (one particle in the top left corner moving out of the surface, one in
\* the bottom right corner moving left and down)
RandomDraws == {[rx |-> 0, ry |-> 0, rvx |-> 0, rvy |-> 0, rh |-> 0], [rx |-> Unit - 1, ry |-> Unit - 1, rvx |-> 0, rvy |-> Unit - 1, rh |-> Unit - 1]}

\* the draws for the tracked particles of one array
RandomSeqs == [1..NumTracked -> RandomDraws]

\* -------------------------------------------------------- particle fields
EmptyField == [n |-> 0, gen |-> 0, p |-> <<>>]

Populated(f) == f.n > 0

\* (Math.random() - 0.5) * spread, spread in 1/Unit pixel
Velocity(r, spread) == ((r * 2 - Unit) * spread) \div (2 * Unit)

NewNeuralNode(win, r) == [x |-> r.rx * win.w, y |-> r.ry * win.h, vx |-> Velocity(r.rvx, Unit \div 2), vy |-> Velocity(r.rvy, Unit \div 2)]

NewWatercolorBlob(win, r) == [x |-> r.rx * win.w, y |-> r.ry * win.h, vx |-> Velocity(r.rvx, Unit \div 2), vy |-> Velocity(r.rvy, Unit \div 2), colorH |-> 200 * Unit + r.rh * 60]

NewNebulaStar(win, r) == [x |-> r.rx * win.w, y |-> r.ry * win.h]

NewPaperShard(win, r) == [x |-> r.rx * win.w, y |-> r.ry * win.h, vx |-> Velocity(r.rvx, Unit \div 5), vy |-> Velocity(r.rvy, Unit \div 5)]

\* The operators below work on the component's state as one record S: the
\* refs, the canvas, the animation frames the browser holds for it, the
\* component's own React state and what the last executed tick drew (frame).
\* S.threw: an exception is propagating out of the code being executed.

\* a ref is assigned a new array
NewArray(count, old, particles) == [n |-> count, gen |-> old.gen + 1, p |-> particles]

initNeuralNodes(S, rnd) == [S EXCEPT !.neuralNodes = NewArray(NodeCount, @, [k \in 1..NumTracked |-> NewNeuralNode(S.win, rnd[k])])]

initWatercolorBlobs(S, rnd) == [S EXCEPT !.watercolorBlobs = NewArray(BlobCount, @, [k \in 1..NumTracked |-> NewWatercolorBlob(S.win, rnd[k])])]

initNebulaStars(S, rnd) == [S EXCEPT !.nebulaStars = NewArray(StarCount, @, [k \in 1..NumTracked |-> NewNebulaStar(S.win, rnd[k])])]

\* createImageData(w, h) throws IndexSizeError when w or h is zero; the
\* noise canvas ref and the shard ref are assigned only after it.
initPaperShards(S, rnd) == IF S.win.w = 0 \/ S.win.h = 0 THEN [S EXCEPT !.threw = TRUE] ELSE [S EXCEPT !.noiseCanvas = [width |-> S.win.w, height |-> S.win.h], !.paperShards = NewArray(ShardCount, @, [k \in 1..NumTracked |-> NewPaperShard(S.win, rnd[k])])]

\* a mode-sync effect that only syncs modeRef
ModeSyncEffectNoInit(S, m, rnd) == [S EXCEPT !.modeRef = m]

\* the mode-sync effect without its length === 0 guards
ModeSyncEffectUnguarded(S, m, rnd) ==
  Let([S EXCEPT !.modeRef = m], LAMBDA S0 :
  Let(IF m = NEURAL THEN initNeuralNodes(S0, rnd)
      ELSE IF m = WATERCOLOR THEN initWatercolorBlobs(S0, rnd)
      ELSE IF m = NEBULA THEN initNebulaStars(S0, rnd)
      ELSE IF m = WATER_CIRCLE THEN initPaperShards(S0, rnd)
      ELSE S0, LAMBDA S1 :
  IF S1.threw THEN S1 ELSE IF m = NEURAL THEN initPaperShards(S1, rnd) ELSE S1))

\* useEffect(..., [mode]) : sync modeRef, lazily create the mode's fields
ModeSyncEffect(S, m, rnd) ==
  Let([S EXCEPT !.modeRef = m], LAMBDA S0 :
  Let(IF m = NEURAL /\ S0.neuralNodes.n = 0 THEN initNeuralNodes(S0, rnd)
      ELSE IF m = WATERCOLOR /\ S0.watercolorBlobs.n = 0 THEN initWatercolorBlobs(S0, rnd)
      ELSE IF m = NEBULA /\ S0.nebulaStars.n = 0 THEN initNebulaStars(S0, rnd)
      ELSE IF m = WATER_CIRCLE /\ S0.paperShards.n = 0 THEN initPaperShards(S0, rnd)
      ELSE S0, LAMBDA S1 :
  IF S1.threw THEN S1 ELSE IF m = NEURAL /\ S1.paperShards.n = 0 THEN initPaperShards(S1, rnd) ELSE S1))

\* useEffect(..., [colorShift])
ColorSyncEffect(S, c) == [S EXCEPT !.colorShiftRef = c]

\* useEffect(..., [mode, colorShift]) : re-sync mode/color
ResyncEffect(S, m, c) == [S EXCEPT !.modeRef = m, !.colorShiftRef = c]

\* ------------------------------------------------------- Spectrum Source
bufferLength == fftSize \div 2

\* what getByteFrequencyData leaves in dataArray, for a buffer of N bins
FrameData(fr, N) == [i \in 0..(N - 1) |-> IF fr = "silence" THEN 0 ELSE IF fr = "stairs" THEN (i % 4) * 85 ELSE 255]

\* ------------------------------------------------------ Metric Extractor
\* a JavaScript number: not-a-number, or a value in 1/Unit
NaN == [nan |-> TRUE, v |-> 0]

Num(x) == [nan |-> FALSE, v |-> x]

\* a / b as JavaScript computes it for a >= 0 (0/0 is NaN, 0/-b is -0)
Divide(a, b) == IF b = 0 THEN NaN ELSE IF b < 0 THEN Num(-((a * Unit) \div (-b))) ELSE Num((a * Unit) \div b)

\* a band loop that takes the kick area off the bass total
BandOfKickSubtracted(i, val) ==
  IF i < 5 THEN [bassTotal |-> val * 10, lowMidTotal |-> 0, highTotal |-> 0]
  ELSE IF i < 20 THEN [bassTotal |-> -(val * 8), lowMidTotal |-> 0, highTotal |-> 0]
  ELSE IF i < 100 THEN [bassTotal |-> 0, lowMidTotal |-> val, highTotal |-> 0]
  ELSE [bassTotal |-> 0, lowMidTotal |-> 0, highTotal |-> val]

\* one iteration of the band loop; bass in tenths (val, val * 0.8)
BandOf(i, val) ==
  IF i < 5 THEN [bassTotal |-> val * 10, lowMidTotal |-> 0, highTotal |-> 0]
  ELSE IF i < 20 THEN [bassTotal |-> val * 8, lowMidTotal |-> 0, highTotal |-> 0]
  ELSE IF i < 100 THEN [bassTotal |-> 0, lowMidTotal |-> val, highTotal |-> 0]
  ELSE [bassTotal |-> 0, lowMidTotal |-> 0, highTotal |-> val]

\* the band loop over bins lo..hi-1 (the sums, split in halves)
RECURSIVE BandTotals(_, _, _)
BandTotals(lo, hi, data) ==
  IF lo >= hi THEN [bassTotal |-> 0, lowMidTotal |-> 0, highTotal |-> 0]
  ELSE IF hi = lo + 1 THEN BandOf(lo, data[lo])
  ELSE Let(BandTotals(lo, (lo + hi) \div 2, data), LAMBDA l :
       Let(BandTotals((lo + hi) \div 2, hi, data), LAMBDA r :
       [bassTotal |-> l.bassTotal + r.bassTotal, lowMidTotal |-> l.lowMidTotal + r.lowMidTotal, highTotal |-> l.highTotal + r.highTotal]))

\* a bass level without the factor 2 of the boost
BassLevelUnboosted(bassTotal10) == LET q == (bassTotal10 * Unit) \div (10 * 20 * 255) IN Num((q * q) \div Unit)

\* bassLevel = (bassAvg / 255)^2 * 2 with bassAvg = bassTotal / 20
BassLevel(bassTotal10) == LET q == (bassTotal10 * Unit) \div (10 * 20 * 255) IN Num((2 * q * q) \div Unit)

\* midLevel = lowMidAvg / 255 with lowMidAvg = lowMidTotal / 80
MidLevel(lowMidTotal) == Divide(lowMidTotal, 80 * 255)

\* highLevel = highAvg / 255 with highAvg = highTotal / (bufferLength - 100)
HighLevel(highTotal, N) == Divide(highTotal, (N - 100) * 255)

AudioMetrics(N, data) ==
  Let(BandTotals(0, N, data), LAMBDA t :
  [bassLevel |-> BassLevel(t.bassTotal), midLevel |-> MidLevel(t.lowMidTotal), highLevel |-> HighLevel(t.highTotal, N)])

\* the spectra the analyser of this program delivers, and their metrics
DataOf == [fr \in Spectra |-> FrameData(fr, bufferLength)]

MetricsOf == [fr \in Spectra |-> AudioMetrics(bufferLength, DataOf[fr])]

\* ------------------------------------------------------ Color Synthesizer
\* (base + globalHueShift + hueWobble) % 360, base and wobble in 1/Unit deg
Hue(base, globalHueShift, hueWobble) == JsRem(base + globalHueShift * Unit + hueWobble, 360 * Unit)

\* ------------------------------------------------- Particle Field Manager
\* the wrap with its low side only
WrapShardLow(v, size) == IF v < -(ShardMargin * Unit) THEN (size + ShardMargin) * Unit ELSE v

\* shard.x += shard.vx, then wrap with the 150px margin
WrapShard(v, size) ==
  LET a == IF v < -(ShardMargin * Unit) THEN (size + ShardMargin) * Unit ELSE v
  IN IF a > (size + ShardMargin) * Unit THEN -(ShardMargin * Unit) ELSE a

MoveShard(shard, WIDTH, HEIGHT) == [shard EXCEPT !.x = WrapShard(shard.x + shard.vx, WIDTH), !.y = WrapShard(shard.y + shard.vy, HEIGHT)]

\* the wrap with its low side only
WrapNodeLow(v, size) == IF v < 0 THEN size * Unit ELSE v

\* node.x += node.vx * (1 + bassLevel * 0.5), then wrap to the opposite edge
WrapNode(v, size) ==
  LET a == IF v < 0 THEN size * Unit ELSE v
  IN IF a > size * Unit THEN 0 ELSE a

NodeStep(v, bassLevel) == (v * (2 * Unit + bassLevel)) \div (2 * Unit)

MoveNode(node, WIDTH, HEIGHT, bassLevel) == [node EXCEPT !.x = WrapNode(node.x + NodeStep(node.vx, bassLevel), WIDTH), !.y = WrapNode(node.y + NodeStep(node.vy, bassLevel), HEIGHT)]

\* blob.x += blob.vx * (1 + bassLevel * 5), then bounce at the 100px bound
BlobStep(v, bassLevel) == (v * (Unit + 5 * bassLevel)) \div Unit

Bounce(pos, v, size) == IF pos < -(100 * Unit) \/ pos > (size + 100) * Unit THEN -v ELSE v

MoveBlob(blob, WIDTH, HEIGHT, bassLevel) ==
  LET nx == blob.x + BlobStep(blob.vx, bassLevel)
      ny == blob.y + BlobStep(blob.vy, bassLevel)
  IN [blob EXCEPT !.x = nx, !.y = ny, !.vx = Bounce(nx, blob.vx, WIDTH), !.vy = Bounce(ny, blob.vy, HEIGHT)]

\* forEach over an array: the array object stays, its particles change
ForEach(field, Op(_)) == [field EXCEPT !.p = [k \in DOMAIN field.p |-> Op(field.p[k])]]

\* ---------------------------------------------------------- Mode Renderer
bars == 120

\* what a tick drew: the mode it dispatched on, the surface size and the
\* spectrum it used, the draw operations in their order (drawn), and the
\* quantities they were drawn with
NoFrame == [mode |-> NULL, width |-> 0, height |-> 0, fr |-> NULL, bassLevel |-> Num(0), drawn |-> <<>>, hues |-> {}, raster |-> NoCanvas,
            bassScale |-> 0, barCount |-> 0, nodes |-> 0, blobs |-> 0, stars |-> 0, shards |-> 0, poolSize |-> 0, safeInnerRadius |-> 0, startRadius |-> 0, ink |-> <<>>, isLightMode |-> FALSE]

\* NEURAL branch: shards move and wrap, nodes move and wrap
DrawNeural(S, WIDTH, HEIGHT, M, hueWobble) ==
  [S EXCEPT !.paperShards = ForEach(@, LAMBDA shard : MoveShard(shard, WIDTH, HEIGHT)),
            !.neuralNodes = ForEach(@, LAMBDA node : MoveNode(node, WIDTH, HEIGHT, M.bassLevel.v)),
            !.frame.drawn = Append(@, NEURAL),
            !.frame.shards = S.paperShards.n,
            !.frame.nodes = S.neuralNodes.n,
            !.frame.hues = {Hue(220 * Unit, S.colorShiftRef, hueWobble)}]

\* WATERCOLOR branch: blobs move and bounce
DrawWatercolor(S, WIDTH, HEIGHT, M, hueWobble) ==
  Let(ForEach(S.watercolorBlobs, LAMBDA blob : MoveBlob(blob, WIDTH, HEIGHT, M.bassLevel.v)), LAMBDA blobs :
  [S EXCEPT !.watercolorBlobs = blobs,
            !.frame.drawn = Append(@, WATERCOLOR),
            !.frame.blobs = blobs.n,
            !.frame.hues = {Hue(blobs.p[k].colorH, S.colorShiftRef, hueWobble) : k \in DOMAIN blobs.p}])

\* a bin taken from 182% of the spectrum
InkIndexWide(i, N) == (i * ((N * 182) \div 100)) \div bars

\* WATER_CIRCLE: the bin of slot i, Math.floor(i * step)
InkIndex(i, N) == (i * ((N * 82) \div 100)) \div bars

\* WATER_CIRCLE: the slots whose outward bar has length > 0
InkSlotsDrawn(data, N, HEIGHT) == {i \in 0..(bars - 1) : InkIndex(i, N) \in DOMAIN data /\ data[InkIndex(i, N)] > 0 /\ HEIGHT > 0}

\* WATER_CIRCLE: radiusBase = Math.min(WIDTH, HEIGHT) / 4.5
RadiusBase(WIDTH, HEIGHT) == (Min(WIDTH, HEIGHT) * Unit * 10) \div 45

\* WATER_CIRCLE: poolSize = (radiusBase * 0.5) * (0.8 + bassLevel * 0.6)
PoolSize(radiusBase, bassLevel) == ((radiusBase \div 2) * ((8 * Unit) \div 10 + (bassLevel * 6) \div 10)) \div Unit

centerGap == 10

\* WATER_CIRCLE: startRadius = radiusBase * 0.9 + bassLevel * (radiusBase * 0.2)
StartRadius(radiusBase, bassLevel) == (radiusBase * 9) \div 10 + (bassLevel * ((radiusBase * 2) \div 10)) \div Unit

\* a bar length with a minimum of 5% of full scale (Math.max(0.05, ...))
InkLengthWithMinimum(val, HEIGHT, bassLevel) ==
  LET smoothedVal == IF (val * val * Unit) \div (255 * 255) < Unit \div 20 THEN Unit \div 20 ELSE (val * val * Unit) \div (255 * 255)
  IN (((smoothedVal * ((HEIGHT * Unit) \div 5)) \div Unit) * (Unit + bassLevel)) \div Unit

\* WATER_CIRCLE: length = (val / 255)^2 * maxExtend * (1 + bassLevel) with
\* maxExtend = HEIGHT * (1 / 5)
InkLength(val, HEIGHT, bassLevel) == (((((val * val * Unit) \div (255 * 255)) * ((HEIGHT * Unit) \div 5)) \div Unit) * (Unit + bassLevel)) \div Unit

\* an inward bar as long as the outward one
InwardLenUnclamped(length, startRadius, safeInnerRadius) == length

\* WATER_CIRCLE: inwardLen = Math.min(length, Math.max(0, startRadius - safeInnerRadius))
InwardLen(length, startRadius, safeInnerRadius) ==
  LET maxInwardLen == IF startRadius - safeInnerRadius > 0 THEN startRadius - safeInnerRadius ELSE 0
  IN Min(length, maxInwardLen)

\* WATER_CIRCLE: the bars of the 120 slots; a bar is drawn when its length
\* is > 0
InkBars(data, N, HEIGHT, bassLevel, startRadius, safeInnerRadius) ==
  [i \in 0..(bars - 1) |->
     Let(InkLength(data[InkIndex(i, N)], HEIGHT, bassLevel), LAMBDA length :
     Let(InwardLen(length, startRadius, safeInnerRadius), LAMBDA inwardLen :
     [length |-> length, outward |-> length > 0, inwardLen |-> inwardLen, inward |-> inwardLen > 0]))]

\* WATER_CIRCLE branch: shards move and wrap and are drawn, noise overlay,
\* pool, ink bars
DrawWaterCircle(S, WIDTH, HEIGHT, M, hueWobble, data, N) ==
  Let(PoolSize(RadiusBase(WIDTH, HEIGHT), M.bassLevel.v), LAMBDA poolSize :
  Let(StartRadius(RadiusBase(WIDTH, HEIGHT), M.bassLevel.v), LAMBDA startRadius :
  [S EXCEPT !.paperShards = ForEach(@, LAMBDA shard : MoveShard(shard, WIDTH, HEIGHT)),
            !.frame.drawn = Append(@, WATER_CIRCLE),
            !.frame.shards = S.paperShards.n,
            !.frame.poolSize = poolSize,
            !.frame.safeInnerRadius = poolSize + centerGap * Unit,
            !.frame.startRadius = startRadius,
            !.frame.ink = InkBars(data, N, HEIGHT, M.bassLevel.v, startRadius, poolSize + centerGap * Unit),
            !.frame.raster = S.noiseCanvas,
            !.frame.hues = {Hue(200 * Unit - M.bassLevel.v * 30, S.colorShiftRef, hueWobble)}
                           \cup {Hue(180 * Unit + (i * 60 * Unit) \div bars, S.colorShiftRef, hueWobble) : i \in InkSlotsDrawn(data, N, HEIGHT)}]))

\* a NEBULA branch that also runs the blob loop of the WATERCOLOR branch
DrawNebulaMovingBlobs(S, hueWobble) ==
  [S EXCEPT !.frame.drawn = Append(@, NEBULA),
            !.frame.stars = S.nebulaStars.n,
            !.watercolorBlobs = ForEach(@, LAMBDA blob : MoveBlob(blob, S.canvas.width, S.canvas.height, 0)),
            !.frame.hues = {Hue(270 * Unit, S.colorShiftRef, hueWobble), Hue(320 * Unit, S.colorShiftRef, hueWobble), Hue(230 * Unit, S.colorShiftRef, hueWobble)}]

\* NEBULA branch: three clouds; the stars are only read
DrawNebula(S, hueWobble) ==
  [S EXCEPT !.frame.drawn = Append(@, NEBULA),
            !.frame.stars = S.nebulaStars.n,
            !.frame.hues = {Hue(270 * Unit, S.colorShiftRef, hueWobble), Hue(320 * Unit, S.colorShiftRef, hueWobble), Hue(230 * Unit, S.colorShiftRef, hueWobble)}]

\* BARS: the number of iterations of the bar loop, which adds barWidth + 1
\* to x after each bar (barWidth = WIDTH / N * 1.25) and breaks once
\* x > WIDTH, i.e. once k * (5 * WIDTH + 4 * N) > 4 * WIDTH * N
BarsDrawn(WIDTH, N) == Min(N, Cardinality({k \in 1..N : k * (5 * WIDTH + 4 * N) <= 4 * WIDTH * N}) + 1)

\* the surface widths of this model and their bar counts
Widths == {w.w : w \in WindowSizes \cup {ZeroSize}} \cup {DefaultCanvas.width}

BarsDrawnAt == [w \in Widths |-> BarsDrawn(w, bufferLength)]

\* CIRCULAR: bassScale = 1 + bassLevel * 0.8
BassScale(bassLevel) == Unit + (bassLevel * 8) \div 10

\* classic modes in which Bars is an `if`, not an `else if`, after Circular
DrawClassicFallThrough(S, currentMode, WIDTH, hueWobble, N) ==
  LET dynamicHue == Hue(0, S.colorShiftRef, hueWobble)
      C == IF currentMode = CIRCULAR
           THEN [S EXCEPT !.frame.drawn = Append(@, CIRCULAR),
                          !.frame.bassScale = BassScale(S.frame.bassLevel.v),
                          !.frame.hues = {dynamicHue} \cup {JsRem(dynamicHue + (i * 60 * Unit) \div bars, 360 * Unit) : i \in 0..(bars - 1)}]
           ELSE S
  IN IF currentMode = BARS \/ currentMode = CIRCULAR
     THEN [C EXCEPT !.frame.drawn = Append(@, BARS),
                    !.frame.hues = @ \cup {JsRem(dynamicHue + (i * 60 * Unit) \div N, 360 * Unit) : i \in 0..(BarsDrawnAt[WIDTH] - 1)}]
     ELSE IF currentMode = WAVE
     THEN [C EXCEPT !.frame.drawn = Append(@, WAVE), !.frame.hues = {dynamicHue}]
     ELSE C

\* classic modes: Circular, Bars, Wave
DrawClassic(S, currentMode, WIDTH, hueWobble, N) ==
  LET dynamicHue == Hue(0, S.colorShiftRef, hueWobble)
  IN IF currentMode = CIRCULAR
     THEN [S EXCEPT !.frame.drawn = Append(@, CIRCULAR),
                    !.frame.bassScale = BassScale(S.frame.bassLevel.v),
                    !.frame.hues = {dynamicHue} \cup {JsRem(dynamicHue + (i * 60 * Unit) \div bars, 360 * Unit) : i \in 0..(bars - 1)}]
     ELSE IF currentMode = BARS
     THEN [S EXCEPT !.frame.drawn = Append(@, BARS),
                    !.frame.barCount = BarsDrawnAt[WIDTH],
                    !.frame.hues = {JsRem(dynamicHue + (i * 60 * Unit) \div N, 360 * Unit) : i \in 0..(BarsDrawnAt[WIDTH] - 1)}]
     ELSE IF currentMode = WAVE
     THEN [S EXCEPT !.frame.drawn = Append(@, WAVE), !.frame.hues = {dynamicHue}]
     ELSE S

\* a watermark that still counts Network as a light mode
WatermarkNeuralLight(S, currentMode) ==
  [S EXCEPT !.frame.isLightMode = currentMode \in {NEURAL, WATERCOLOR, WATER_CIRCLE},
            !.frame.drawn = Append(@, "Watermark")]

\* the watermark, drawn at the very end of the tick: dark text in the light
\* modes
Watermark(S, currentMode) ==
  [S EXCEPT !.frame.isLightMode = currentMode \in {WATERCOLOR, WATER_CIRCLE},
            !.frame.drawn = Append(@, "Watermark")]

\* Handle Resize: adopt the client size (which clears the canvas); re-init
\* the shards in shard modes
HandleResize(S, rnd) ==
  IF S.canvas.width # S.win.w \/ S.canvas.height # S.win.h
  THEN Let([S EXCEPT !.canvas = [width |-> S.win.w, height |-> S.win.h], !.frame = NoFrame], LAMBDA S1 :
       IF S1.modeRef = WATER_CIRCLE \/ S1.modeRef = NEURAL THEN initPaperShards(S1, rnd) ELSE S1)
  ELSE S

\* a requestAnimationFrame whose id is not kept in animationRef
RequestFrameIdDropped(S, loop) == [S EXCEPT !.pending = @ \cup {[id |-> S.nextId, loop |-> loop]}, !.nextId = @ + 1]

\* requestAnimationFrame(render) by the loop that runs this tick
RequestFrame(S, loop) == [S EXCEPT !.pending = @ \cup {[id |-> S.nextId, loop |-> loop]}, !.animationRef = S.nextId, !.nextId = @ + 1]

\* render: one tick of the loop set up by effect run `loop`.  An exception
\* leaves render before the frame is drawn and before the next one is
\* requested.
render(S, loop, fr, hueWobble, rnd) ==
  Let([S EXCEPT !.renders = @ + 1, !.tickLoop = loop, !.tickThrew = FALSE], LAMBDA S0 :
  Let(HandleResize(S0, rnd), LAMBDA S1 :
  LET WIDTH == S1.canvas.width
      HEIGHT == S1.canvas.height
      M == MetricsOf[fr]
      currentMode == S1.modeRef
  IN IF S1.threw THEN [S1 EXCEPT !.tickThrew = TRUE]
     ELSE Let([S1 EXCEPT !.frame = [NoFrame EXCEPT !.mode = currentMode, !.width = WIDTH, !.height = HEIGHT, !.fr = fr, !.bassLevel = M.bassLevel]], LAMBDA S2 :
          Let(IF currentMode = NEURAL THEN DrawNeural(S2, WIDTH, HEIGHT, M, hueWobble)
              ELSE IF currentMode = WATERCOLOR THEN DrawWatercolor(S2, WIDTH, HEIGHT, M, hueWobble)
              ELSE IF currentMode = WATER_CIRCLE THEN DrawWaterCircle(S2, WIDTH, HEIGHT, M, hueWobble, DataOf[fr], bufferLength)
              ELSE IF currentMode = NEBULA THEN DrawNebula(S2, hueWobble)
              ELSE DrawClassic(S2, currentMode, WIDTH, hueWobble, bufferLength), LAMBDA S3 :
          RequestFrame(Watermark(S3, currentMode), loop)))))

\* ------------------------------------------------------------ Frame Driver
\* a cleanup that cancels nothing
LoopCleanupNothing(S) == S

\* the render-loop effect's cleanup: cancelAnimationFrame(animationRef.current)
LoopCleanup(S) == IF S.hasCleanup /\ S.animationRef # 0 THEN [S EXCEPT !.pending = {f \in @ : f.id # S.animationRef}] ELSE S

\* the render-loop effect without its `if (!ctx) return`
RenderLoopEffectNoCtxGuard(S, a, m, fr, rnd, captureOK) ==
  Let([S EXCEPT !.hasCleanup = FALSE, !.loopDeps = [analyser |-> a, streamInitialized |-> S.streamInitialized]], LAMBDA S0 :
  IF ~S.canvasRef \/ a = NoAnalyser THEN S0
  ELSE
  Let(IF m = NEURAL THEN initNeuralNodes(S0, rnd) ELSE S0, LAMBDA S1 :
  Let(IF m = WATERCOLOR THEN initWatercolorBlobs(S1, rnd) ELSE S1, LAMBDA S2 :
  Let(IF m = NEBULA THEN initNebulaStars(S2, rnd) ELSE S2, LAMBDA S3 :
  Let(IF (m = WATER_CIRCLE \/ m = NEURAL) /\ S3.paperShards.n = 0 THEN initPaperShards(S3, rnd) ELSE S3, LAMBDA S4 :
  IF S4.threw THEN S4 ELSE
  Let(render([S4 EXCEPT !.loops = @ + 1], S4.loops + 1, fr, 0, rnd), LAMBDA S5 :
  IF S5.threw THEN S5
  ELSE IF ~S.streamInitialized /\ captureOK THEN [S5 EXCEPT !.streamInitialized = TRUE, !.hasCleanup = TRUE]
  ELSE [S5 EXCEPT !.hasCleanup = TRUE]))))))

\* useEffect(..., [analyser, streamInitialized]) : set up the render loop.
\* m and S.streamInitialized are the values of the render being committed;
\* the first render() runs inside the effect, at elapsed time 0.
RenderLoopEffect(S, a, m, fr, rnd, captureOK) ==
  Let([S EXCEPT !.hasCleanup = FALSE, !.loopDeps = [analyser |-> a, streamInitialized |-> S.streamInitialized]], LAMBDA S0 :
  IF ~S.canvasRef \/ a = NoAnalyser THEN S0
  ELSE IF ~S.ctxOK THEN S0
  ELSE
  Let(IF m = NEURAL THEN initNeuralNodes(S0, rnd) ELSE S0, LAMBDA S1 :
  Let(IF m = WATERCOLOR THEN initWatercolorBlobs(S1, rnd) ELSE S1, LAMBDA S2 :
  Let(IF m = NEBULA THEN initNebulaStars(S2, rnd) ELSE S2, LAMBDA S3 :
  Let(IF (m = WATER_CIRCLE \/ m = NEURAL) /\ S3.paperShards.n = 0 THEN initPaperShards(S3, rnd) ELSE S3, LAMBDA S4 :
  IF S4.threw THEN S4 ELSE
  Let(render([S4 EXCEPT !.loops = @ + 1], S4.loops + 1, fr, 0, rnd), LAMBDA S5 :
  IF S5.threw THEN S5
  ELSE IF ~S.streamInitialized /\ captureOK THEN [S5 EXCEPT !.streamInitialized = TRUE, !.hasCleanup = TRUE]
  ELSE [S5 EXCEPT !.hasCleanup = TRUE]))))))

\* the component before its first commit: useRef / useState initial values,
\* a canvas element of the default size
Fresh(m, c, w, ctxOK, S) ==
  [S EXCEPT !.mounted = TRUE, !.canvasRef = TRUE, !.ctxOK = ctxOK, !.win = w,
            !.neuralNodes = EmptyField, !.watercolorBlobs = EmptyField, !.nebulaStars = EmptyField, !.paperShards = EmptyField,
            !.noiseCanvas = NoCanvas, !.modeRef = m, !.colorShiftRef = c, !.animationRef = 0, !.streamInitialized = FALSE,
            !.canvas = DefaultCanvas, !.hasCleanup = FALSE, !.loopDeps = [analyser |-> NoAnalyser, streamInitialized |-> FALSE], !.threw = FALSE, !.frame = NoFrame]

\* unmount: the effect cleanups run, the instance is gone
Unmounted(S) ==
  [LoopCleanup(S) EXCEPT !.mounted = FALSE, !.canvasRef = FALSE, !.ctxOK = FALSE,
            !.neuralNodes = EmptyField, !.watercolorBlobs = EmptyField, !.nebulaStars = EmptyField, !.paperShards = EmptyField,
            !.noiseCanvas = NoCanvas, !.modeRef = NULL, !.colorShiftRef = 0, !.animationRef = 0, !.streamInitialized = FALSE,
            !.canvas = DefaultCanvas, !.hasCleanup = FALSE, !.loopDeps = [analyser |-> NoAnalyser, streamInitialized |-> FALSE], !.threw = FALSE, !.frame = NoFrame,
            !.renders = 0, !.tickLoop = 0, !.tickThrew = FALSE, !.loops = 0]

\* an exception left an effect: React unmounts the whole tree
Crashed(S) == [Unmounted(S) EXCEPT !.crashed = TRUE]

\* the effects of the first commit, in declaration order
MountEffects(S, a, m, c, fr, rnd, captureOK) ==
  Let(ModeSyncEffect(S, m, rnd), LAMBDA E1 :
  IF E1.threw THEN Crashed(E1) ELSE
  Let(RenderLoopEffect(ColorSyncEffect(E1, c), a, m, fr, rnd, captureOK), LAMBDA E3 :
  IF E3.threw THEN Crashed(E3) ELSE ResyncEffect(E3, m, c)))

\* the effects of a later commit: cleanups of the effects whose deps
\* changed, then their bodies, in declaration order
UpdateEffects(S, a, m, c, modeChanged, colorChanged, fr, rnd, captureOK) ==
  LET loopChanged == S.loopDeps # [analyser |-> a, streamInitialized |-> S.streamInitialized]
  IN Let(IF loopChanged THEN LoopCleanup(S) ELSE S, LAMBDA E0 :
     Let(IF modeChanged THEN ModeSyncEffect(E0, m, rnd) ELSE E0, LAMBDA E1 :
     IF E1.threw THEN Crashed(E1) ELSE
     Let(IF colorChanged THEN ColorSyncEffect(E1, c) ELSE E1, LAMBDA E2 :
     Let(IF loopChanged THEN RenderLoopEffect(E2, a, m, fr, rnd, captureOK) ELSE E2, LAMBDA E3 :
     IF E3.threw THEN Crashed(E3)
     ELSE IF modeChanged \/ colorChanged THEN ResyncEffect(E3, m, c) ELSE E3))))

\* App renders <VisualizerCanvas> only while capturing with an analyser
Reconcile(S, a, cap, m, c, modeChanged, colorChanged, fr, rnd, captureOK, ctxOK) ==
  IF ~(cap /\ a # NoAnalyser) THEN (IF S.mounted THEN Unmounted(S) ELSE S)
  ELSE IF ~S.mounted THEN Let(Fresh(m, c, S.win, ctxOK, S), LAMBDA F : MountEffects(F, a, m, c, fr, rnd, captureOK))
  ELSE UpdateEffects(S, a, m, c, modeChanged, colorChanged, fr, rnd, captureOK)

\* ------------------------------------------------------------------ state
\* analyser .. colorShift: App's state.  win: the window.  crashed .. loops:
\* the mounted VisualizerCanvas, the animation frames the browser holds for
\* it (pending, nextId) and what its ticks did: the frame the last one drew,
\* the number of executions of render (renders) and of loops set up (loops)
\* in this instance, the loop the last tick belonged to and whether it threw.
\* steps: the number of steps of the user and the browser so far.  op: the
\* last step.  prevMode: the mode before the last mode button click.
\* probe: a spectrum handed to the Metric Extractor and the levels it
\* returned; probe.set holds the bytes of the spectrum that differ from the
\* frame probe.fr; probe.reads holds the indices at which a tick in mode
\* probe.mode on a surface probe.width wide reads the array.
NoProbe == [N |-> 0, fr |-> "silence", set |-> <<>>, mode |-> NULL, width |-> 0, read |-> FALSE, reads |-> {}, done |-> FALSE, levels |-> [bassLevel |-> Num(0), midLevel |-> Num(0), highLevel |-> Num(0)]]

VARIABLES analyser, isCapturing, mode, colorShift, crashed, win, mounted, canvasRef, ctxOK, neuralNodesRef, watercolorBlobsRef, nebulaStarsRef, paperShardsRef, noiseCanvasRef, modeRef, colorShiftRef, animationRef, streamInitialized, canvas, hasCleanup, loopDeps, pending, nextId, frame, renders, tickLoop, tickThrew, loops, steps, op, prevMode, probe

appVars == <<analyser, isCapturing, mode, colorShift>>

compVars == <<crashed, mounted, canvasRef, ctxOK, neuralNodesRef, watercolorBlobsRef, nebulaStarsRef, paperShardsRef, noiseCanvasRef, modeRef, colorShiftRef, animationRef, streamInitialized, canvas, hasCleanup, loopDeps, pending, nextId, frame, renders, tickLoop, tickThrew, loops>>

vars == <<appVars, win, compVars, steps, op, prevMode, probe>>

\* the component state as the record the operators above work on
Cur ==
  [crashed |-> crashed, mounted |-> mounted, canvasRef |-> canvasRef, ctxOK |-> ctxOK, win |-> win,
   neuralNodes |-> neuralNodesRef, watercolorBlobs |-> watercolorBlobsRef, nebulaStars |-> nebulaStarsRef, paperShards |-> paperShardsRef,
   noiseCanvas |-> noiseCanvasRef, modeRef |-> modeRef, colorShiftRef |-> colorShiftRef, animationRef |-> animationRef,
   streamInitialized |-> streamInitialized, canvas |-> canvas, hasCleanup |-> hasCleanup, loopDeps |-> loopDeps,
   pending |-> pending, nextId |-> nextId, frame |-> frame, renders |-> renders, tickLoop |-> tickLoop, tickThrew |-> tickThrew,
   loops |-> loops, threw |-> FALSE]

Commit(S) ==
  /\ crashed' = S.crashed /\ mounted' = S.mounted /\ canvasRef' = S.canvasRef /\ ctxOK' = S.ctxOK
  /\ neuralNodesRef' = S.neuralNodes /\ watercolorBlobsRef' = S.watercolorBlobs
  /\ nebulaStarsRef' = S.nebulaStars /\ paperShardsRef' = S.paperShards
  /\ noiseCanvasRef' = S.noiseCanvas /\ modeRef' = S.modeRef /\ colorShiftRef' = S.colorShiftRef
  /\ animationRef' = S.animationRef /\ streamInitialized' = S.streamInitialized /\ canvas' = S.canvas
  /\ hasCleanup' = S.hasCleanup /\ loopDeps' = S.loopDeps /\ pending' = S.pending /\ nextId' = S.nextId
  /\ frame' = S.frame /\ renders' = S.renders /\ tickLoop' = S.tickLoop /\ tickThrew' = S.tickThrew /\ loops' = S.loops

\* The landing screen.  App starts with mode WATER_CIRCLE and colorShift 0;
\* both keep the value the control panel gave them in an earlier capture.
InitOver(modes, sliders) ==
  /\ analyser = NoAnalyser /\ isCapturing = FALSE /\ mode \in modes /\ colorShift \in sliders
  /\ win = [w |-> 800, h |-> 600]
  /\ crashed = FALSE /\ mounted = FALSE /\ canvasRef = FALSE /\ ctxOK = FALSE
  /\ neuralNodesRef = EmptyField /\ watercolorBlobsRef = EmptyField /\ nebulaStarsRef = EmptyField /\ paperShardsRef = EmptyField
  /\ noiseCanvasRef = NoCanvas /\ modeRef = NULL /\ colorShiftRef = 0 /\ animationRef = 0
  /\ streamInitialized = FALSE /\ canvas = DefaultCanvas /\ hasCleanup = FALSE /\ loopDeps = [analyser |-> NoAnalyser, streamInitialized |-> FALSE]
  /\ pending = {} /\ nextId = 1 /\ frame = NoFrame /\ renders = 0 /\ tickLoop = 0 /\ tickThrew = FALSE /\ loops = 0
  /\ steps = 0 /\ op = "Init" /\ prevMode = NULL /\ probe = NoProbe

\* ---------------------------------------------------------------- actions
\* React has a render to do for state that was set outside an event handler:
\* setStreamInitialized from the render-loop effect, stopCapture from the
\* track's onended.  It renders in its next task; only animation frames and
\* window resizes come before that task.
RenderScheduled == mounted /\ (~(isCapturing /\ analyser # NoAnalyser) \/ loopDeps # [analyser |-> analyser, streamInitialized |-> streamInitialized])

\* the draws of a step that creates no array
DefaultSeq == CHOOSE r \in RandomSeqs : TRUE

\* App.startCapture succeeding: setAnalyser(node), setIsCapturing(true), and
\* the commit that mounts the visualizer.  (A failing startCapture only
\* sets the error message.)
StartCapture(fr, rnd, captureOK, ctx) ==
  /\ ~isCapturing /\ ~mounted /\ ~crashed
  /\ analyser' = AnalyserNode /\ isCapturing' = TRUE
  /\ \E T \in {Reconcile(C, AnalyserNode, TRUE, mode, colorShift, FALSE, FALSE, fr, rnd, captureOK, ctx) : C \in {Cur}} : Commit(T)
  /\ steps' = steps + 1 /\ op' = "StartCapture"
  /\ UNCHANGED <<mode, colorShift, win, prevMode, probe>>

\* ControlPanel mode button: onSetMode(m).  Setting the current value again
\* renders nothing.
SetMode(m, fr, rnd) ==
  /\ mounted /\ ~crashed /\ ~RenderScheduled
  /\ mode' = m
  /\ IF m = mode
     THEN UNCHANGED compVars
     ELSE \E T \in {Reconcile(C, analyser, isCapturing, m, colorShift, TRUE, FALSE, fr, rnd, TRUE, ctxOK) : C \in {Cur}} : Commit(T)
  /\ steps' = steps + 1 /\ op' = "SetMode" /\ prevMode' = mode
  /\ UNCHANGED <<analyser, isCapturing, colorShift, win, probe>>

\* ControlPanel hue slider: onColorChange(Number(e.target.value))
SetColor(c, fr) ==
  /\ mounted /\ ~crashed /\ ~RenderScheduled
  /\ c # colorShift
  /\ colorShift' = c
  /\ \E T \in {Reconcile(C, analyser, isCapturing, mode, c, FALSE, TRUE, fr, DefaultSeq, TRUE, ctxOK) : C \in {Cur}} : Commit(T)
  /\ steps' = steps + 1 /\ op' = "SetColor"
  /\ UNCHANGED <<analyser, isCapturing, mode, win, prevMode, probe>>

\* ControlPanel stop button: App.stopCapture and the commit that unmounts
StopCapture ==
  /\ mounted /\ ~crashed /\ ~RenderScheduled
  /\ analyser' = NoAnalyser /\ isCapturing' = FALSE
  /\ \E T \in {Reconcile(C, NoAnalyser, FALSE, mode, colorShift, FALSE, FALSE, "silence", DefaultSeq, TRUE, ctxOK) : C \in {Cur}} : Commit(T)
  /\ steps' = steps + 1 /\ op' = "StopCapture"
  /\ UNCHANGED <<mode, colorShift, win, prevMode, probe>>

\* the shared video track ends: App.stopCapture from its onended handler
TrackEnded ==
  /\ isCapturing /\ ~crashed
  /\ analyser' = NoAnalyser /\ isCapturing' = FALSE
  /\ steps' = steps + 1 /\ op' = "TrackEnded"
  /\ UNCHANGED <<mode, colorShift, win, compVars, prevMode, probe>>

\* React renders the scheduled update and commits it
Rerender(fr, rnd, captureOK) ==
  /\ ~crashed /\ RenderScheduled
  /\ \E T \in {Reconcile(C, analyser, isCapturing, mode, colorShift, FALSE, FALSE, fr, rnd, captureOK, ctxOK) : C \in {Cur}} : Commit(T)
  /\ op' = "Rerender"
  /\ UNCHANGED <<appVars, win, steps, prevMode, probe>>

\* the browser runs a pending animation frame callback: one tick
Tick(f, fr, hueWobble, rnd) ==
  /\ f \in pending
  /\ \E T \in {render(C, f.loop, fr, hueWobble, rnd) : C \in {[Cur EXCEPT !.pending = @ \ {f}]}} : Commit(T)
  /\ steps' = steps + 1 /\ op' = "Tick"
  /\ UNCHANGED <<appVars, win, prevMode, probe>>

\* the user resizes the window
WindowResize(w) ==
  /\ w # win
  /\ win' = w
  /\ steps' = steps + 1 /\ op' = "WindowResize"
  /\ UNCHANGED <<appVars, compVars, prevMode, probe>>

\* the draws a tick consumes: it creates an array only when it resizes the
\* surface
TickSeqs == IF canvas.width # win.w \/ canvas.height # win.h THEN RandomSeqs ELSE {DefaultSeq}

\* the steps of the program, with its inputs drawn from the given sets and
\* at most maxSteps steps of the user and the browser
NextOver(modes, sliders, sizes, frames, wobbles, maxSteps) ==
  \/ /\ steps < maxSteps
     /\ \E fr \in frames, rnd \in RandomSeqs, captureOK \in BOOLEAN, ctx \in BOOLEAN : StartCapture(fr, rnd, captureOK, ctx)
  \/ /\ steps < maxSteps
     /\ \E m \in modes, fr \in frames, rnd \in RandomSeqs : SetMode(m, fr, rnd)
  \/ /\ steps < maxSteps
     /\ \E c \in sliders, fr \in frames : SetColor(c, fr)
  \/ /\ steps < maxSteps
     /\ StopCapture
  \/ /\ steps < maxSteps
     /\ TrackEnded
  \/ \E fr \in frames, rnd \in RandomSeqs, captureOK \in BOOLEAN : Rerender(fr, rnd, captureOK)
  \/ /\ steps < maxSteps
     /\ \E f \in pending, fr \in frames, hueWobble \in wobbles, rnd \in TickSeqs : Tick(f, fr, hueWobble, rnd)
  \/ /\ steps < maxSteps
     /\ \E w \in sizes : WindowResize(w)

\* a capture in which the canvas gives its 2D context and its stream and the
\* user only switches modes and resizes the window
NextRun(modes, sizes, frames, wobbles, maxSteps) ==
  \/ /\ steps < maxSteps
     /\ \E fr \in frames, rnd \in RandomSeqs : StartCapture(fr, rnd, TRUE, TRUE)
  \/ /\ steps < maxSteps
     /\ \E m \in modes, fr \in frames, rnd \in RandomSeqs : SetMode(m, fr, rnd)
  \/ \E fr \in frames, rnd \in RandomSeqs : Rerender(fr, rnd, TRUE)
  \/ /\ steps < maxSteps
     /\ \E f \in pending, fr \in frames, hueWobble \in wobbles, rnd \in TickSeqs : Tick(f, fr, hueWobble, rnd)
  \/ /\ steps < maxSteps
     /\ \E w \in sizes : WindowResize(w)

Init == InitOver(VisualizerMode, {0})

Next == NextOver(VisualizerMode, {0, 200}, WindowSizes, {"full"}, {0}, MaxSteps)

\* every mode, every step
Spec == Init /\ [][Next]_vars

\* a capture started in Watercolor, one step more
NextSwitch == NextRun(VisualizerMode, WindowSizes, {"full"}, {0}, MaxSteps + 1)

SpecSwitch == InitOver({WATERCOLOR}, {0}) /\ [][NextSwitch]_vars

\* the shard modes and one mode without shards, three steps more
NextShard == NextRun({WATER_CIRCLE, NEURAL, BARS}, WindowSizes, {"full"}, {0}, MaxSteps + 3)

SpecShard == InitOver({WATER_CIRCLE, NEURAL}, {0}) /\ [][NextShard]_vars

\* Network on every spectrum, with Bars to switch to, one step more
NextNodes == NextRun({NEURAL, BARS}, WindowSizes, Spectra, {0}, MaxSteps + 1)

SpecNodes == InitOver({NEURAL}, {0}) /\ [][NextNodes]_vars

\* RadialInk on every spectrum and on windows down to a few pixels
NextInk == NextRun({WATER_CIRCLE}, WindowSizes \cup {TinySize}, Spectra, {0}, MaxSteps)

SpecInk == InitOver({WATER_CIRCLE}, {0}) /\ [][NextInk]_vars

\* every mode, every slider value, the extremes of the wobble
NextHue == NextOver(VisualizerMode, SliderValues, WindowSizes, Frames, Wobbles, MaxSteps)

SpecHue == InitOver(VisualizerMode, SliderValues) /\ [][NextHue]_vars

\* a window that loses its area
NextZero == NextOver({WATER_CIRCLE, BARS}, {0, 200}, WindowSizes \cup {ZeroSize}, {"full"}, {0}, MaxSteps)

SpecZero == InitOver({WATER_CIRCLE, BARS}, {0}) /\ [][NextZero]_vars

\* ---- a Watercolor capture that has been running for a while
\* the component record of the landing screen
Landing ==
  [crashed |-> FALSE, mounted |-> FALSE, canvasRef |-> FALSE, ctxOK |-> FALSE, win |-> [w |-> 800, h |-> 600],
   neuralNodes |-> EmptyField, watercolorBlobs |-> EmptyField, nebulaStars |-> EmptyField, paperShards |-> EmptyField,
   noiseCanvas |-> NoCanvas, modeRef |-> NULL, colorShiftRef |-> 0, animationRef |-> 0,
   streamInitialized |-> FALSE, canvas |-> DefaultCanvas, hasCleanup |-> FALSE, loopDeps |-> [analyser |-> NoAnalyser, streamInitialized |-> FALSE],
   pending |-> {}, nextId |-> 1, frame |-> NoFrame, renders |-> 0, tickLoop |-> 0, tickThrew |-> FALSE,
   loops |-> 0, threw |-> FALSE]

\* the component after StartCapture in mode m and the re-render that
\* follows setStreamInitialized
Started(m, fr, rnd) ==
  Let(Reconcile(Landing, AnalyserNode, TRUE, m, 0, FALSE, FALSE, fr, rnd, TRUE, TRUE), LAMBDA S :
  Reconcile(S, AnalyserNode, TRUE, m, 0, FALSE, FALSE, fr, rnd, TRUE, TRUE))

\* n animation frames later, all on spectrum fr (the ticks, split in halves)
RECURSIVE Ticked(_, _, _)
Ticked(S, n, fr) ==
  IF n = 0 THEN S
  ELSE IF n = 1 THEN Let(CHOOSE f \in S.pending : TRUE, LAMBDA f : render([S EXCEPT !.pending = @ \ {f}], f.loop, fr, 0, DefaultSeq))
  ELSE Let(Ticked(S, n \div 2, fr), LAMBDA T : Ticked(T, n - n \div 2, fr))

\* the variables hold the component record S
Holds(S) ==
  /\ crashed = S.crashed /\ mounted = S.mounted /\ canvasRef = S.canvasRef /\ ctxOK = S.ctxOK
  /\ neuralNodesRef = S.neuralNodes /\ watercolorBlobsRef = S.watercolorBlobs
  /\ nebulaStarsRef = S.nebulaStars /\ paperShardsRef = S.paperShards
  /\ noiseCanvasRef = S.noiseCanvas /\ modeRef = S.modeRef /\ colorShiftRef = S.colorShiftRef
  /\ animationRef = S.animationRef /\ streamInitialized = S.streamInitialized /\ canvas = S.canvas
  /\ hasCleanup = S.hasCleanup /\ loopDeps = S.loopDeps /\ pending = S.pending /\ nextId = S.nextId
  /\ frame = S.frame /\ renders = S.renders /\ tickLoop = S.tickLoop /\ tickThrew = S.tickThrew /\ loops = S.loops

\* the number of full-volume ticks in which a blob of the highest speed
\* covers the 100px beyond the surface
WarmUp == (100 * Unit) \div BlobStep(Velocity(Unit - 1, Unit \div 2), MetricsOf["full"].bassLevel.v)

\* a capture started in Watercolor on loud music, WarmUp - 1 .. WarmUp + 1
\* ticks ago: the blobs created on the window's edge are about to reach the
\* 100px bound
InitBounce ==
  /\ analyser = AnalyserNode /\ isCapturing = TRUE /\ mode = WATERCOLOR /\ colorShift = 0
  /\ win = [w |-> 800, h |-> 600]
  /\ \E rnd \in RandomSeqs, n \in (WarmUp - 1)..(WarmUp + 1) :
       /\ \E S \in {Ticked(Started(WATERCOLOR, "full", rnd), n, "full")} : Holds(S)
       /\ steps = 1 + n
  /\ op = "Tick" /\ prevMode = NULL /\ probe = NoProbe

\* the capture goes on, on loud and on silent frames; the user may switch
\* to Nebula and back
NextBounce ==
  \/ /\ steps < WarmUp + 2 + MaxSteps
     /\ \E m \in {WATERCOLOR, NEBULA}, fr \in Frames, rnd \in RandomSeqs : SetMode(m, fr, rnd)
  \/ /\ steps < WarmUp + 2 + MaxSteps
     /\ \E f \in pending, fr \in Frames, rnd \in TickSeqs : Tick(f, fr, 0, rnd)

SpecBounce == InitBounce /\ [][NextBounce]_vars

\* CIRCULAR: the bin of bar i, i * step with step = Math.floor(bufferLength / bars)
CircularIndex(i, N) == i * (N \div bars)

\* the indices at which one tick in mode m reads dataArray: the band loop,
\* then the mode's strategy
ReadsOf(m, N, WIDTH) ==
  (0..(N - 1))
  \cup (IF m = CIRCULAR THEN {CircularIndex(i, N) : i \in 0..(bars - 1)}
        ELSE IF m = WATER_CIRCLE THEN {InkIndex(i, N) : i \in 0..(bars - 1)}
        ELSE IF m = BARS THEN 0..(BarsDrawn(WIDTH, N) - 1)
        ELSE IF m = WAVE THEN 0..(N - 1)
        ELSE {})

\* one tick's reads of a spectrum of probe.N bins
ReadSpectrum ==
  /\ ~probe.read
  /\ probe' = [probe EXCEPT !.read = TRUE, !.reads = ReadsOf(probe.mode, probe.N, probe.width)]
  /\ UNCHANGED <<appVars, win, compVars, steps, op, prevMode>>

\* buffers of 1..MaxLen bins and of the analyser's 1024
InitReads ==
  /\ analyser = NoAnalyser /\ isCapturing = FALSE /\ mode = WATER_CIRCLE /\ colorShift = 0
  /\ win = [w |-> 800, h |-> 600]
  /\ Holds(Landing)
  /\ steps = 0 /\ op = "Init" /\ prevMode = NULL
  /\ probe \in {[NoProbe EXCEPT !.N = n, !.mode = m, !.width = w.w] : n \in (1..MaxLen) \cup {bufferLength}, m \in VisualizerMode, w \in WindowSizes}

NextReads == ReadSpectrum

SpecReads == InitReads /\ [][NextReads]_vars

\* the Metric Extractor alone, on buffers of 1..MaxLen bins
Extract ==
  /\ ~probe.done
  /\ probe' = [probe EXCEPT !.done = TRUE, !.levels = Let(FrameData(probe.fr, probe.N), LAMBDA data : AudioMetrics(probe.N, data))]
  /\ UNCHANGED <<appVars, win, compVars, steps, op, prevMode>>

InitMetrics ==
  /\ analyser = NoAnalyser /\ isCapturing = FALSE /\ mode = WATER_CIRCLE /\ colorShift = 0
  /\ win = [w |-> 800, h |-> 600]
  /\ crashed = FALSE /\ mounted = FALSE /\ canvasRef = FALSE /\ ctxOK = FALSE
  /\ neuralNodesRef = EmptyField /\ watercolorBlobsRef = EmptyField /\ nebulaStarsRef = EmptyField /\ paperShardsRef = EmptyField
  /\ noiseCanvasRef = NoCanvas /\ modeRef = NULL /\ colorShiftRef = 0 /\ animationRef = 0
  /\ streamInitialized = FALSE /\ canvas = DefaultCanvas /\ hasCleanup = FALSE /\ loopDeps = [analyser |-> NoAnalyser, streamInitialized |-> FALSE]
  /\ pending = {} /\ nextId = 1 /\ frame = NoFrame /\ renders = 0 /\ tickLoop = 0 /\ tickThrew = FALSE /\ loops = 0
  /\ steps = 0 /\ op = "Init" /\ prevMode = NULL
  /\ probe \in {[NoProbe EXCEPT !.N = n, !.fr = fr] : n \in 1..MaxLen, fr \in Frames}

NextMetrics == Extract

\* the dataArray of the probe
ProbeData == [k \in 0..(probe.N - 1) |-> IF k \in DOMAIN probe.set THEN probe.set[k] ELSE FrameData(probe.fr, probe.N)[k]]

\* the next frame has a larger magnitude in bin i and is like the last one
\* in all other bins; the Metric Extractor runs on it
Raise(i, val) ==
  /\ probe.done /\ i < probe.N /\ val > ProbeData[i]
  /\ \E set \in {[k \in DOMAIN probe.set \cup {i} |-> IF k = i THEN val ELSE probe.set[k]]} :
       probe' = [probe EXCEPT !.set = set,
                              !.levels = Let([k \in 0..(probe.N - 1) |-> IF k \in DOMAIN set THEN set[k] ELSE FrameData(probe.fr, probe.N)[k]], LAMBDA data : AudioMetrics(probe.N, data))]
  /\ UNCHANGED <<appVars, win, compVars, steps, op, prevMode>>

\* buffers that end inside the bass band, at its end, and beyond it
InitLoudness ==
  /\ InitMetrics
  /\ probe.N \in {5, 20, MaxLen}

NextLoudness ==
  \/ Extract
  \/ \E i \in BassBins, val \in Bytes : Raise(i, val)

SpecLoudness == InitLoudness /\ [][NextLoudness]_vars

SpecMetrics == InitMetrics /\ [][NextMetrics]_vars

\* ------------------------------------------------------------- properties
\* C1: for every hue shift in [0, 360) and every wobble in [-54, 54], every
\* hue the last tick drew with lies in [0, 360).
C1_HueInRange == colorShiftRef \in 0..359 => \A h \in frame.hues : 0 <= h /\ h < 360 * Unit

\* C2: at the end of every tick in Network or RadialInk mode every shard is
\* within the 150px margin of the surface: -150 <= x <= W + 150 and
\* -150 <= y <= H + 150.
C2_ShardsInMargin ==
  frame.mode \in {NEURAL, WATER_CIRCLE} =>
    \A k \in DOMAIN paperShardsRef.p :
      /\ -(ShardMargin * Unit) <= paperShardsRef.p[k].x /\ paperShardsRef.p[k].x <= (canvas.width + ShardMargin) * Unit
      /\ -(ShardMargin * Unit) <= paperShardsRef.p[k].y /\ paperShardsRef.p[k].y <= (canvas.height + ShardMargin) * Unit

\* a tick in a shard mode wrapped a shard that was beyond the right margin
\* of a surface that had shrunk to 400px
C2_Wrapped ==
  /\ frame.mode \in {NEURAL, WATER_CIRCLE} /\ canvas.width = 400
  /\ \E k \in DOMAIN paperShardsRef.p : paperShardsRef.p[k].x = -(ShardMargin * Unit)

\* C3: while the visualizer is mounted, a step replaces the array of an
\* already populated field only if it resizes the surface, and no step
\* creates a field more than once (twice when it also resizes the surface).
C3_RegeneratedOnlyOnResize ==
  [][mounted /\ mounted' =>
       \A f \in {<<neuralNodesRef, neuralNodesRef'>>, <<watercolorBlobsRef, watercolorBlobsRef'>>, <<nebulaStarsRef, nebulaStarsRef'>>, <<paperShardsRef, paperShardsRef'>>} :
         /\ Populated(f[1]) /\ f[2].gen # f[1].gen => canvas' # canvas
         /\ f[2].gen <= f[1].gen + (IF canvas' = canvas THEN 1 ELSE 2)]_vars

\* C4: a mode button click leaves every field that is already populated as
\* it is: activating a mode whose fields exist performs no initialisation.
C4_SecondActivationInitialisesNothing ==
  [][steps' = steps + 1 /\ op' = "SetMode" /\ mounted' =>
       /\ Populated(neuralNodesRef) => neuralNodesRef' = neuralNodesRef
       /\ Populated(watercolorBlobsRef) => watercolorBlobsRef' = watercolorBlobsRef
       /\ Populated(nebulaStarsRef) => nebulaStarsRef' = nebulaStarsRef
       /\ Populated(paperShardsRef) => paperShardsRef' = paperShardsRef /\ noiseCanvasRef' = noiseCanvasRef]_vars

\* the Watercolor button was clicked while Watercolor was active and its
\* seven blobs existed
C4_ActivatedTwice == mounted /\ op = "SetMode" /\ prevMode = WATERCOLOR /\ mode = WATERCOLOR /\ modeRef = WATERCOLOR /\ watercolorBlobsRef.n = BlobCount

\* C5: a mode button click and a tick change only the fields of the mode
\* that is active after the step; so the seven Watercolor blobs are the same
\* after Watercolor -> Nebula -> Watercolor.
C5_OnlyTheModesFields ==
  [][steps' = steps + 1 /\ op' \in {"SetMode", "Tick"} /\ mounted' =>
       /\ modeRef' # NEURAL => neuralNodesRef' = neuralNodesRef
       /\ modeRef' # WATERCOLOR => watercolorBlobsRef' = watercolorBlobsRef
       /\ modeRef' # NEBULA => nebulaStarsRef' = nebulaStarsRef
       /\ modeRef' \notin {NEURAL, WATER_CIRCLE} => paperShardsRef' = paperShardsRef /\ noiseCanvasRef' = noiseCanvasRef]_vars

\* Watercolor -> Nebula, a tick in Nebula, -> Watercolor: seven blobs
C5_BackInWatercolor ==
  /\ mounted /\ op = "SetMode" /\ prevMode = NEBULA /\ mode = WATERCOLOR /\ modeRef = WATERCOLOR
  /\ frame.mode = NEBULA /\ watercolorBlobsRef.n = BlobCount

\* C6: every RadialInk frame is drawn with a noise raster whose width and
\* height are those of the surface it is drawn on.
C6_RasterFitsSurface == frame.mode = WATER_CIRCLE => frame.raster = [width |-> frame.width, height |-> frame.height]

C8_LoopSurvivesException == mounted /\ tickThrew => pending # {}

C10_NoLoopWithoutSourceOrSurface ==
  /\ [](mounted /\ ~(ctxOK /\ canvasRef) => pending = {} /\ ~hasCleanup /\ frame = NoFrame)
  /\ [][loops' > loops => analyser' # NoAnalyser /\ isCapturing']_vars
  /\ [][loops' > loops \/ renders' > renders \/ nextId' > nextId => mounted' /\ ctxOK' /\ canvasRef']_vars

\* the visualizer is mounted with an analyser but got no 2D context
C10_MountedWithoutContext == mounted /\ analyser # NoAnalyser /\ ~ctxOK /\ renders = 0 /\ pending = {}

\* C11: when the next frame differs from the last one only in one larger
\* magnitude byte at an index in [0, 20), its bassLevel is greater than or
\* equal to the last one's.
C11_BassLevelMonotone ==
  [][/\ probe.done /\ probe'.done /\ probe'.N = probe.N
     /\ \E i \in 0..19 : /\ i < probe.N /\ ProbeData'[i] > ProbeData[i]
                         /\ \A k \in 0..(probe.N - 1) : k # i => ProbeData'[k] = ProbeData[k]
     => ~probe'.levels.bassLevel.nan /\ probe'.levels.bassLevel.v >= probe.levels.bassLevel.v]_vars

\* a kick bin was raised to full scale after a sub bin, and the bass level
\* rose above that of the sub bin alone
C11_KickRaised ==
  /\ probe.done /\ probe.fr = "silence" /\ DOMAIN probe.set = {0, 5}
  /\ probe.set[0] = 255 /\ probe.set[5] = 255
  /\ probe.levels.bassLevel.v > BassLevel(255 * 10).v

\* C12 (as stated): a Circular tick on a full-scale spectrum of 1024 bins
\* has bassLevel 2 and a central disc scale of 1 + 0.8.
C12_SaturatesAtFullScale ==
  frame.mode = CIRCULAR /\ frame.fr = "full" /\ bufferLength = 1024 =>
    frame.bassLevel = Num(2 * Unit) /\ frame.bassScale = Unit + (8 * Unit) \div 10

\* C12 (amended): a Circular tick on a full-scale spectrum of 1024 bins has
\* bassLevel (17/20)^2 * 2 = 1.445 (the kick bins weigh 0.8) and a central
\* disc scale of 1 + 1.445 * 0.8 = 2.156, both to within 0.005.
C12_FullScaleLevels ==
  frame.mode = CIRCULAR /\ frame.fr = "full" /\ bufferLength = 1024 =>
    /\ ~frame.bassLevel.nan
    /\ 1440 * Unit <= frame.bassLevel.v * 1000 /\ frame.bassLevel.v * 1000 <= 1450 * Unit
    /\ 2151 * Unit <= frame.bassScale * 1000 /\ frame.bassScale * 1000 <= 2161 * Unit

\* a Circular tick drew its disc on a full-scale spectrum
C12_FullScaleCircular == frame.mode = CIRCULAR /\ frame.fr = "full" /\ frame.drawn = <<CIRCULAR, "Watermark">> /\ frame.bassScale > Unit

\* C13: a RadialInk tick on an all-zero spectrum has outward and inward
\* bar lengths of exactly zero in all 120 slots and draws no bar, and it
\* still draws the shards and, on a surface with an area, a pool of
\* positive size.
C13_SilenceDrawsNoBars ==
  frame.mode = WATER_CIRCLE /\ frame.fr = "silence" =>
    /\ DOMAIN frame.ink = 0..(bars - 1)
    /\ \A i \in DOMAIN frame.ink : frame.ink[i].length = 0 /\ frame.ink[i].inwardLen = 0 /\ ~frame.ink[i].outward /\ ~frame.ink[i].inward
    /\ frame.shards = ShardCount
    /\ frame.width > 0 /\ frame.height > 0 => frame.poolSize > 0

\* a RadialInk tick on silence drew its layers on a 400x300 surface
C13_SilentInkFrame ==
  /\ frame.mode = WATER_CIRCLE /\ frame.fr = "silence" /\ frame.width = 400 /\ frame.height = 300
  /\ frame.drawn = <<WATER_CIRCLE, "Watermark">> /\ frame.poolSize > 0

\* the draw strategies a frame was drawn with, in their order
Strategies(f) == SelectSeq(f.drawn, LAMBDA d : d \in VisualizerMode)

\* C14: a tick that completes executes exactly one draw strategy, the one of
\* the mode that is active when it runs (also when the mode was changed
\* since the last tick), and takes its watermark colour decision on that
\* same mode value.
C14_OneStrategyPerTick ==
  [][renders' > renders /\ ~tickThrew' =>
       /\ frame'.mode = mode' /\ frame'.mode = modeRef' /\ (mounted => modeRef' = modeRef)
       /\ Strategies(frame') = <<mode'>>
       /\ frame'.isLightMode = (mode' \in {WATERCOLOR, WATER_CIRCLE})]_vars

\* the mode was changed from a dark to a light mode between two ticks, and
\* the tick after the change has run
C14_TickAfterModeChange ==
  /\ op = "Tick" /\ renders >= 2 /\ prevMode = NEBULA /\ mode = WATERCOLOR
  /\ frame.mode = WATERCOLOR /\ frame.isLightMode

\* C15: in every frame the watermark is the last thing drawn, after the
\* mode's draw operations; its text is dark exactly in Watercolor and
\* RadialInk and light in Circular, Bars, Wave, Network and Nebula.
C15_WatermarkLastAndContrasting ==
  frame # NoFrame =>
    /\ Len(frame.drawn) >= 2 /\ frame.drawn[Len(frame.drawn)] = "Watermark"
    /\ \A k \in 1..(Len(frame.drawn) - 1) : frame.drawn[k] # "Watermark"
    /\ frame.mode \in {WATERCOLOR, WATER_CIRCLE} => frame.isLightMode
    /\ frame.mode \in {CIRCULAR, BARS, WAVE, NEURAL, NEBULA} => ~frame.isLightMode

\* a Network frame got the light watermark text
C15_NetworkFrame == frame.mode = NEURAL /\ frame.drawn = <<NEURAL, "Watermark">> /\ ~frame.isLightMode

\* C16: the hue shift the control panel delivers to the engine is always an
\* integer in [0, 360): the colorShift prop and the ref the ticks read it
\* from never hold 360 or a value outside the range.
C16_HueShiftBelow360 == mounted => colorShift \in 0..359 /\ colorShiftRef \in 0..359

\* C17: at most one animation frame is pending and it belongs to the loop
\* set up last; every tick that executes belongs to that loop, so a loop
\* that was replaced never ticks again.  (A tick is one step: no two ticks
\* overlap.)
C17_OneLiveLoop ==
  /\ [](Cardinality(pending) <= 1 /\ \A f \in pending : f.loop = loops)
  /\ [][renders' > renders => tickLoop' = loops']_vars
  /\ [][loops' > loops /\ loops > 0 => \A f \in pending : f \notin pending']_vars

\* the loop was set up a second time (the capture stream became
\* initialised) and a tick of the second loop has run
C17_SecondLoopTicked == op = "Tick" /\ loops = 2 /\ tickLoop = 2 /\ renders >= 3 /\ Cardinality(pending) = 1

\* a blob is beyond the 100px-extended bounds of the surface
BlobOutside(blob, surface) ==
  \/ blob.x < -(100 * Unit) \/ blob.x > (surface.width + 100) * Unit
  \/ blob.y < -(100 * Unit) \/ blob.y > (surface.height + 100) * Unit

\* C18: on a surface of constant size a blob is beyond the 100px-extended
\* bounds after a Watercolor tick only if that tick took it across the
\* bound: a blob that was beyond the bounds before the tick is within them
\* after it, whatever the bass levels of the ticks.
C18_BlobsComeBack ==
  [][op' = "Tick" /\ steps' = steps + 1 /\ frame'.mode = WATERCOLOR /\ canvas' = canvas /\ watercolorBlobsRef'.gen = watercolorBlobsRef.gen =>
       \A k \in DOMAIN watercolorBlobsRef.p :
         BlobOutside(watercolorBlobsRef.p[k], canvas) => ~BlobOutside(watercolorBlobsRef'.p[k], canvas')]_vars

\* C19: after every Network tick, whatever the bass level, every node is on
\* the surface: 0 <= x <= W and 0 <= y <= H.
C19_NodesOnSurface ==
  frame.mode = NEURAL =>
    \A k \in DOMAIN neuralNodesRef.p :
      /\ 0 <= neuralNodesRef.p[k].x /\ neuralNodesRef.p[k].x <= canvas.width * Unit
      /\ 0 <= neuralNodesRef.p[k].y /\ neuralNodesRef.p[k].y <= canvas.height * Unit

\* a Network tick put a node that had left the surface on the left onto the
\* right edge
C19_NodeWrapped ==
  /\ frame.mode = NEURAL /\ renders >= 1
  /\ \E k \in DOMAIN neuralNodesRef.p : neuralNodesRef.p[k].x = canvas.width * Unit /\ neuralNodesRef.p[k].vx < 0

\* C20: in every RadialInk frame and each of the 120 slots the inward bar
\* length is min(outward length, startRadius - (poolSize + gap)) floored at
\* zero; so 0 <= inwardLen <= outward length, and the inner end of an inward
\* bar that is drawn is at poolSize + gap from the centre or further out.
C20_InwardBarClearOfPool ==
  frame.mode = WATER_CIRCLE =>
    /\ DOMAIN frame.ink = 0..(bars - 1)
    /\ \A i \in DOMAIN frame.ink :
         LET room == frame.startRadius - (frame.poolSize + centerGap * Unit)
             floored == IF Min(frame.ink[i].length, room) < 0 THEN 0 ELSE Min(frame.ink[i].length, room)
         IN /\ frame.ink[i].inwardLen = floored
            /\ 0 <= frame.ink[i].inwardLen /\ frame.ink[i].inwardLen <= frame.ink[i].length
            /\ frame.ink[i].inward => frame.startRadius - frame.ink[i].inwardLen >= frame.poolSize + centerGap * Unit

\* a frame in which a slot's inward bar is cut to the room the pool leaves
C20_Clamped ==
  /\ frame.mode = WATER_CIRCLE /\ frame.fr = "stairs"
  /\ \E i \in DOMAIN frame.ink : frame.ink[i].inward /\ frame.ink[i].inwardLen < frame.ink[i].length

\* C21: every Bars tick draws one mirrored bar for each of the N spectrum
\* bins, whatever the surface width.
C21_OneBarPerBin == frame.mode = BARS => frame.barCount = bufferLength

\* C22: a tick that draws a mode with particle fields finds them populated
\* with their counts (Network: 50 nodes and 150 shards, Watercolor: 7
\* blobs, Nebula: 150 stars, RadialInk: 150 shards), on the first tick
\* after mount and after a mode switch as on any other; and every field is
\* always empty or holds exactly its count.
C22_FieldsPopulatedWhenDrawn ==
  /\ frame.mode = NEURAL => frame.nodes = NodeCount /\ frame.shards = ShardCount
  /\ frame.mode = WATERCOLOR => frame.blobs = BlobCount
  /\ frame.mode = NEBULA => frame.stars = StarCount
  /\ frame.mode = WATER_CIRCLE => frame.shards = ShardCount
  /\ neuralNodesRef.n \in {0, NodeCount} /\ watercolorBlobsRef.n \in {0, BlobCount}
  /\ nebulaStarsRef.n \in {0, StarCount} /\ paperShardsRef.n \in {0, ShardCount}

\* the capture started in Circular, which has no fields; the user switched
\* to Nebula and the first tick after the switch drew the 150 stars
C22_FirstTickAfterSwitch ==
  /\ op = "Tick" /\ prevMode = CIRCULAR /\ mode = NEBULA /\ frame.mode = NEBULA
  /\ frame.stars = StarCount /\ watercolorBlobsRef.n = 0 /\ neuralNodesRef.n = 0

\* C23: for every spectrum length N >= 1 and every mode, every index at
\* which a tick reads the array is within [0, N).
C23_ReadsInRange == probe.read /\ probe.N >= 1 => \A idx \in probe.reads : 0 <= idx /\ idx < probe.N

\* a RadialInk tick read the analyser's 1024 bins up to bin 832, the bin of
\* slot 119
C23_LastInkSlotRead ==
  /\ probe.read /\ probe.mode = WATER_CIRCLE /\ probe.N = bufferLength
  /\ InkIndex(bars - 1, probe.N) \in probe.reads /\ InkIndex(bars - 1, probe.N) > 0

====
